---- MODULE Spec2Model ----
(***************************************************************************)
(* Versioned single-file storage of pupil_src/shared_modules/storage.py.   *)
(*                                                                         *)
(* The state is the in-memory collection of every storage instance, the    *)
(* cleanup observers registered on its plugin, the file system below the   *)
(* recording directories, and the observable outcome of the most recent    *)
(* call (exception raised, warnings logged, from_tuple invocations).       *)
(* Each action is one call made by the owner of a storage or by the host.  *)
(***************************************************************************)
EXTENDS Integers, Sequences, FiniteSets, TLC

\* ------------------------------------------------------------------ bounds
MaxItems == 2       \* longest in-memory collection and longest file payload
MaxCleanups == 2    \* "cleanup" events the host fires per plugin
MaxName == 4        \* longest string given to get_valid_filename

\* ------------------------------------------------------------------ universe
Inst == {"s1"}                    \* storage objects alive at a time (one per plugin)
ItemIds == {1, 2}                 \* identities of the items the owner handles
RecDirs == {"recA", "recB"}       \* recording directories
NoDir == "unset"                  \* _rec_dir before the constructor assigned it

\* Optional Python values: None is <<>>, any other value x is <<x>>.
None == <<>>
Some(x) == <<x>>

\* ------------------------------------------------------------------ StorageItem
\* The item class's schema version (StorageItem.version of the concrete class).
ItemVersion == 2

\* Concrete items: a record of two integer fields.
Items == [id : ItemIds, val : {7}]

\* item.as_tuple: the flat tuple of the item's fields.
as_tuple(item) == <<item.id, item.val>>

\* Tuples of the current schema and of the previous (one field) schema.
CurTuples == {as_tuple(i) : i \in Items}
OldTuples == {<<1>>}
AllTuples == CurTuples \cup OldTuples

\* from_tuple succeeds exactly on tuples of the current arity.
from_tuple_ok(tuple_) == Len(tuple_) = 2
from_tuple(tuple_) == [id |-> tuple_[1], val |-> tuple_[2]]

\* ------------------------------------------------------------------ sequences
RECURSIVE SeqsUpTo(_, _)
SeqsUpTo(S, n) ==
    IF n = 0 THEN {<<>>}
    ELSE LET shorter == SeqsUpTo(S, n - 1)
         IN shorter \cup {Append(q, x) : q \in {r \in shorter : Len(r) = n - 1}, x \in S}

\* [item.as_tuple for item in coll]
as_tuples(coll) == [k \in 1..Len(coll) |-> as_tuple(coll[k])]

\* ------------------------------------------------------------------ paths
\* _storage_file_name of the concrete storage classes; the first is the class
\* whose storage a previous session may have saved.
StorageFileName == "markers.msgpack"
FileNames == {StorageFileName, "annotations.msgpack"}
NoName == "unnamed"               \* no concrete class yet

\* os.path.join(self._rec_dir, "offline_data")
storage_folder_path(dir) == <<dir, "offline_data">>

\* Mutant: the file name of the concrete class is not used.
storage_file_path_fixed_name(dir, name) == Append(storage_folder_path(dir), StorageFileName)

\* os.path.join(self._storage_folder_path, self._storage_file_name)
storage_file_path(dir, name) == Append(storage_folder_path(dir), name)

\* os.path.dirname(filepath)
dirname(filepath) == SubSeq(filepath, 1, Len(filepath) - 1)

Paths == {storage_file_path(d, n) : d \in RecDirs, n \in FileNames}
Folders == {storage_folder_path(d) : d \in RecDirs}

\* ------------------------------------------------------------------ state
VARIABLES
    recordings,    \* the recording directories that exist
    classes,       \* _storage_file_name of the storage classes the plugins use
    constructed,   \* the storage instances whose constructor has run
    rec_dir,       \* self._rec_dir of every instance
    storage_file_name, \* self._storage_file_name of every instance
    items,         \* self.items of every instance, in iteration order
    observers,     \* callbacks registered for "cleanup" on the instance's plugin
    disk,          \* content of every storage file path: None or Some(dict)
    folders,       \* the storage folders that exist
    fired,         \* "cleanup" events the host fired on the instance's plugin
    hookSaves,     \* save_to_disk() invocations made by _on_cleanup
    lastSave,      \* per path: the collection of the last successful save
    out,           \* outcome of the most recent call
    fn             \* a caller of get_valid_filename: its string and the results

vars == <<recordings, classes, constructed, rec_dir, storage_file_name, items, observers,
          disk, folders, fired, hookSaves,
          lastSave, out, fn>>

\* ------------------------------------------------------------------ file names
\* Strings are sequences of characters. Python's str.strip() removes these
\* (among other white space characters) from both ends.
Whitespace == {" ", "\t", "\n"}

\* The character class [-_a-zA-Z0-9.] of the regular expression.
Lower == {"a", "b", "c", "d", "e", "f", "g", "h", "i", "j", "k", "l", "m",
          "n", "o", "p", "q", "r", "s", "t", "u", "v", "w", "x", "y", "z"}
Upper == {"A", "B", "C", "D", "E", "F", "G", "H", "I", "J", "K", "L", "M",
          "N", "O", "P", "Q", "R", "S", "T", "U", "V", "W", "X", "Y", "Z"}
Digits == {"0", "1", "2", "3", "4", "5", "6", "7", "8", "9"}
AllowedChars == {"-", "_", "."} \cup Lower \cup Upper \cup Digits

\* The characters a caller types: white space, kept and removed characters.
Alphabet == {" ", "\t", "a", "_", ".", "'"}

\* str.strip()
RECURSIVE lstrip(_)
lstrip(str) ==
    IF str # <<>> /\ Head(str) \in Whitespace THEN lstrip(Tail(str)) ELSE str
RECURSIVE rstrip(_)
rstrip(str) ==
    IF str # <<>> /\ str[Len(str)] \in Whitespace
    THEN rstrip(SubSeq(str, 1, Len(str) - 1)) ELSE str
strip(str) == rstrip(lstrip(str))

\* str.replace(" ", "_")
replace(str) == [k \in 1..Len(str) |-> IF str[k] = " " THEN "_" ELSE str[k]]

\* Mutant: re.sub(..., count=1) removes the first match only.
RECURSIVE re_sub_first(_)
re_sub_first(str) ==
    IF str = <<>> THEN <<>>
    ELSE IF Head(str) \notin AllowedChars THEN Tail(str)
    ELSE <<Head(str)>> \o re_sub_first(Tail(str))

\* re.sub(r"(?u)[^-_a-zA-Z0-9.]", "", str)
RECURSIVE re_sub(_)
re_sub(str) ==
    IF str = <<>> THEN <<>>
    ELSE IF Head(str) \notin AllowedChars THEN re_sub(Tail(str))
    ELSE <<Head(str)>> \o re_sub(Tail(str))

\* Mutant: the spaces are replaced before the string is stripped.
get_valid_filename_replace_first(file_name) == re_sub(strip(replace(file_name)))

\* Storage.get_valid_filename(file_name)
get_valid_filename(file_name) == re_sub(replace(strip(file_name)))

\* ------------------------------------------------------------------ collection
\* add(item) of the concrete storage: appends.
add(coll, item) == Append(coll, item)

\* delete(item) of the concrete storage: removes the first occurrence.
delete(coll, item) ==
    LET k == CHOOSE j \in 1..Len(coll) :
                 coll[j] = item /\ \A h \in 1..(j - 1) : coll[h] # item
    IN SubSeq(coll, 1, k - 1) \o SubSeq(coll, k + 1, Len(coll))

\* ------------------------------------------------------------------ codec, os
\* dict.get(key, None)
dict_get(d, key) == IF key \in DOMAIN d THEN Some(d[key]) ELSE None

\* Python truth value of an optional list: None and [] are false.
truthy(opt) == opt # None /\ Len(opt[1]) > 0

\* fm.load_object(filepath): the stored structure, or FileNotFoundError.
load_object(files, filepath) ==
    IF files[filepath] = None
    THEN [raised |-> "FileNotFoundError", value |-> <<>>]
    ELSE [raised |-> "none", value |-> files[filepath][1]]

\* fm.save_object(obj, filepath): creates or overwrites the file, or fails and
\* leaves it as it was (io = "save_object_fails": unwritable path).
save_object(files, obj, filepath, io) ==
    IF io = "save_object_fails"
    THEN [disk |-> files, raised |-> "OSError"]
    ELSE [disk |-> [files EXCEPT ![filepath] = Some(obj)], raised |-> "none"]

\* os.makedirs(path, exist_ok=True): nothing to do for an existing folder,
\* otherwise creates it or fails (io = "makedirs_fails").
makedirs(dirs, path, io) ==
    IF path \in dirs THEN [folders |-> dirs, raised |-> "none"]
    ELSE IF io = "makedirs_fails" THEN [folders |-> dirs, raised |-> "OSError"]
    ELSE [folders |-> dirs \cup {path}, raised |-> "none"]

IoOutcomes == {"ok", "makedirs_fails", "save_object_fails"}

\* ------------------------------------------------------------------ calls
\* The file of self holds the last successful save of exactly self.items.
SavedAlready(self) ==
    /\ rec_dir[self] # NoDir
    /\ lastSave[storage_file_path(rec_dir[self], storage_file_name[self])] = Some(items[self])

\* A call runs on a context: the fields of self, the file system, and what the
\* call has done so far (exception, log records, collaborator invocations).
Begin(op, self) ==
    [op |-> op, self |-> self,
     rec_dir |-> rec_dir[self], file_name |-> storage_file_name[self],
     items |-> items[self], observers |-> observers[self],
     disk |-> disk, folders |-> folders,
     before |-> items[self],\* self.items when the call began
     resave |-> SavedAlready(self),
     raised |-> "none",     \* the exception that left the call, if any
     faults |-> <<>>,       \* the file system calls that failed during the call
     warnings |-> <<>>,     \* file paths named by logger.warning records
     calls |-> <<>>,        \* arguments of the from_tuple invocations, in order
     registered |-> 0,      \* plugin.add_observer("cleanup", ...) invocations
     loads |-> 0,           \* _load_from_disk invocations
     saves |-> 0,           \* save_to_disk invocations
     reads |-> 0,           \* fm.load_object invocations
     mkdirs |-> 0,          \* os.makedirs invocations
     writes |-> 0]          \* fm.save_object invocations

\* Mutant: an existing file is left as it is (exclusive creation).
_save_data_to_file_keeps(c, filepath, data, io) ==
    LET dict_representation == [version |-> ItemVersion, data |-> data]
        m == makedirs(c.folders, dirname(filepath), io)
        w == IF c.disk[filepath] # None THEN [disk |-> c.disk, raised |-> "none"]
             ELSE save_object(c.disk, dict_representation, filepath, io)
    IN IF m.raised # "none"
       THEN [c EXCEPT !.mkdirs = @ + 1, !.raised = m.raised,
                      !.faults = Append(@, "makedirs")]
       ELSE [c EXCEPT !.mkdirs = @ + 1, !.folders = m.folders,
                      !.writes = @ + 1, !.disk = w.disk, !.raised = w.raised,
                      !.faults = IF w.raised # "none" THEN Append(@, "save_object") ELSE @]

\* Mutant: the new tuples are appended to the payload a current file holds.
_save_data_to_file_appends(c, filepath, data, io) ==
    LET old == IF c.disk[filepath] = None THEN <<>>
               ELSE IF "data" \in DOMAIN c.disk[filepath][1]
               THEN c.disk[filepath][1].data ELSE <<>>
        dict_representation == [version |-> ItemVersion, data |-> old \o data]
        m == makedirs(c.folders, dirname(filepath), io)
        w == save_object(c.disk, dict_representation, filepath, io)
    IN IF m.raised # "none"
       THEN [c EXCEPT !.mkdirs = @ + 1, !.raised = m.raised,
                      !.faults = Append(@, "makedirs")]
       ELSE [c EXCEPT !.mkdirs = @ + 1, !.folders = m.folders,
                      !.writes = @ + 1, !.disk = w.disk, !.raised = w.raised,
                      !.faults = IF w.raised # "none" THEN Append(@, "save_object") ELSE @]

\* Storage._save_data_to_file(filepath, data)
_save_data_to_file(c, filepath, data, io) ==
    LET dict_representation == [version |-> ItemVersion, data |-> data]
        m == makedirs(c.folders, dirname(filepath), io)
        w == save_object(c.disk, dict_representation, filepath, io)
    IN IF m.raised # "none"
       THEN [c EXCEPT !.mkdirs = @ + 1, !.raised = m.raised,
                      !.faults = Append(@, "makedirs")]
       ELSE [c EXCEPT !.mkdirs = @ + 1, !.folders = m.folders,
                      !.writes = @ + 1, !.disk = w.disk, !.raised = w.raised,
                      !.faults = IF w.raised # "none" THEN Append(@, "save_object") ELSE @]

\* Mutant: the stale-version branch logs the warning and goes on to the data.
_load_data_from_file_no_return(c, filepath) ==
    LET r == load_object(c.disk, filepath)
        dict_representation == r.value
        c1 == [c EXCEPT !.reads = @ + 1]
    IN IF r.raised = "FileNotFoundError"
       THEN [ret |-> None, c |-> c1]
       ELSE IF dict_get(dict_representation, "version") # Some(ItemVersion)
       THEN [ret |-> dict_get(dict_representation, "data"),
             c |-> [c1 EXCEPT !.warnings = Append(@, filepath)]]
       ELSE [ret |-> dict_get(dict_representation, "data"), c |-> c1]

\* Mutant: FileNotFoundError is not caught.
_load_data_from_file_no_except(c, filepath) ==
    LET r == load_object(c.disk, filepath)
        dict_representation == r.value
        c1 == [c EXCEPT !.reads = @ + 1]
    IN IF r.raised = "FileNotFoundError"
       THEN [ret |-> None, c |-> [c1 EXCEPT !.raised = r.raised]]
       ELSE IF dict_get(dict_representation, "version") # Some(ItemVersion)
       THEN [ret |-> None, c |-> [c1 EXCEPT !.warnings = Append(@, filepath)]]
       ELSE [ret |-> dict_get(dict_representation, "data"), c |-> c1]

\* Mutant: a missing version field defaults to the current version.
_load_data_from_file_default(c, filepath) ==
    LET r == load_object(c.disk, filepath)
        dict_representation == r.value
        c1 == [c EXCEPT !.reads = @ + 1]
        version == IF "version" \in DOMAIN dict_representation
                   THEN Some(dict_representation["version"]) ELSE Some(ItemVersion)
    IN IF r.raised = "FileNotFoundError"
       THEN [ret |-> None, c |-> c1]
       ELSE IF version # Some(ItemVersion)
       THEN [ret |-> None, c |-> [c1 EXCEPT !.warnings = Append(@, filepath)]]
       ELSE [ret |-> dict_get(dict_representation, "data"), c |-> c1]

\* Mutant: a file of another version is removed when it is discarded.
_load_data_from_file_removes(c, filepath) ==
    LET r == load_object(c.disk, filepath)
        dict_representation == r.value
        c1 == [c EXCEPT !.reads = @ + 1]
    IN IF r.raised = "FileNotFoundError"
       THEN [ret |-> None, c |-> c1]
       ELSE IF dict_get(dict_representation, "version") # Some(ItemVersion)
       THEN [ret |-> None, c |-> [c1 EXCEPT !.warnings = Append(@, filepath),
                                            !.disk[filepath] = None]]
       ELSE [ret |-> dict_get(dict_representation, "data"), c |-> c1]

\* Storage._load_data_from_file(filepath): the returned value and the context.
_load_data_from_file(c, filepath) ==
    LET r == load_object(c.disk, filepath)
        dict_representation == r.value
        c1 == [c EXCEPT !.reads = @ + 1]
    IN IF r.raised = "FileNotFoundError"
       THEN [ret |-> None, c |-> c1]
       ELSE IF dict_get(dict_representation, "version") # Some(ItemVersion)
       THEN [ret |-> None, c |-> [c1 EXCEPT !.warnings = Append(@, filepath)]]
       ELSE [ret |-> dict_get(dict_representation, "data"), c |-> c1]

\* SingleFileStorage.save_to_disk()
save_to_disk(c, io) ==
    LET item_tuple_list == as_tuples(c.items)
    IN _save_data_to_file([c EXCEPT !.saves = @ + 1],
                          storage_file_path(c.rec_dir, c.file_name),
                          item_tuple_list, io)

\* Mutant: a tuple that fails to reconstruct is skipped.
RECURSIVE load_loop_skips(_, _, _)
load_loop_skips(c, item_tuple_list, k) ==
    IF k > Len(item_tuple_list) THEN c
    ELSE LET item_tuple == item_tuple_list[k]
             called == [c EXCEPT !.calls = Append(@, item_tuple)]
         IN IF ~from_tuple_ok(item_tuple)
            THEN load_loop_skips(called, item_tuple_list, k + 1)
            ELSE load_loop_skips([called EXCEPT !.items = add(@, from_tuple(item_tuple))],
                                 item_tuple_list, k + 1)

\* Mutant: a failing tuple restores the collection the load began with.
RECURSIVE load_loop_rolls_back(_, _, _)
load_loop_rolls_back(c, item_tuple_list, k) ==
    IF k > Len(item_tuple_list) THEN c
    ELSE LET item_tuple == item_tuple_list[k]
             called == [c EXCEPT !.calls = Append(@, item_tuple)]
         IN IF ~from_tuple_ok(item_tuple)
            THEN [called EXCEPT !.raised = "DeserializationError", !.items = c.before]
            ELSE load_loop_rolls_back(
                     [called EXCEPT !.items = add(@, from_tuple(item_tuple))],
                     item_tuple_list, k + 1)

\* The for loop of _load_from_disk, from the k-th tuple on.
RECURSIVE load_loop(_, _, _)
load_loop(c, item_tuple_list, k) ==
    IF k > Len(item_tuple_list) THEN c
    ELSE LET item_tuple == item_tuple_list[k]
             called == [c EXCEPT !.calls = Append(@, item_tuple)]
         IN IF ~from_tuple_ok(item_tuple)
            THEN [called EXCEPT !.raised = "DeserializationError"]
            ELSE load_loop([called EXCEPT !.items = add(@, from_tuple(item_tuple))],
                           item_tuple_list, k + 1)

\* Mutant: the loop starts at the second tuple.
_load_from_disk_off_by_one(c) ==
    LET r == _load_data_from_file([c EXCEPT !.loads = @ + 1],
                                  storage_file_path(c.rec_dir, c.file_name))
        item_tuple_list == r.ret
    IN IF truthy(item_tuple_list) THEN load_loop(r.c, item_tuple_list[1], 2) ELSE r.c

\* Mutant: the collection is emptied before the tuples are added.
_load_from_disk_clears(c) ==
    LET r == _load_data_from_file([c EXCEPT !.loads = @ + 1],
                                  storage_file_path(c.rec_dir, c.file_name))
        item_tuple_list == r.ret
    IN IF truthy(item_tuple_list)
       THEN load_loop([r.c EXCEPT !.items = <<>>], item_tuple_list[1], 1) ELSE r.c

\* SingleFileStorage._load_from_disk()
_load_from_disk(c) ==
    LET r == _load_data_from_file([c EXCEPT !.loads = @ + 1],
                                  storage_file_path(c.rec_dir, c.file_name))
        item_tuple_list == r.ret
    IN IF truthy(item_tuple_list) THEN load_loop(r.c, item_tuple_list[1], 1) ELSE r.c

\* Mutant: an exception of save_to_disk() is caught and dropped.
_on_cleanup_swallows(c, io) == [save_to_disk(c, io) EXCEPT !.raised = "none"]

\* Storage._on_cleanup()
_on_cleanup(c, io) == save_to_disk(c, io)

\* Mutant: the observer is registered twice.
Storage_init_twice(c) == [c EXCEPT !.observers = @ + 2, !.registered = @ + 2]

\* Storage.__init__(plugin)
Storage_init(c) == [c EXCEPT !.observers = @ + 1, !.registered = @ + 1]

\* Mutant: the constructor loads the file.
SingleFileStorage_init_loads(c, dir) ==
    _load_from_disk([Storage_init(c) EXCEPT !.rec_dir = dir])

\* SingleFileStorage.__init__(rec_dir, plugin)
SingleFileStorage_init(c, dir) == [Storage_init(c) EXCEPT !.rec_dir = dir]

\* A new object of the concrete class with the file name `name`, on a new
\* plugin: an empty collection, no attribute set yet, no observer registered yet.
Fresh(c, name) ==
    [c EXCEPT !.rec_dir = NoDir, !.file_name = name, !.items = <<>>, !.before = <<>>,
              !.resave = FALSE, !.observers = 0]

\* The host fires "cleanup": it calls the n registered observers in turn and an
\* exception of one of them leaves the firing.
RECURSIVE fire_cleanup(_, _, _)
fire_cleanup(c, n, io) ==
    IF n = 0 \/ c.raised # "none" THEN c
    ELSE fire_cleanup(_on_cleanup(c, io), n - 1, io)

\* What a finished call leaves to be observed.
Outcome(c) ==
    [op |-> c.op, self |-> c.self, before |-> c.before, resave |-> c.resave,
     raised |-> c.raised,
     faults |-> c.faults, warnings |-> c.warnings,
     calls |-> c.calls, registered |-> c.registered, loads |-> c.loads,
     saves |-> c.saves, reads |-> c.reads, mkdirs |-> c.mkdirs, writes |-> c.writes]

\* The path a successful save of this call wrote, recorded with the collection.
Saved(c) == c.writes > 0 /\ c.raised = "none"
RecordSave(c) ==
    IF Saved(c)
    THEN [lastSave EXCEPT ![storage_file_path(c.rec_dir, c.file_name)] =
              Some(c.items)]
    ELSE lastSave

\* The state a finished call leaves.
Commit(c) ==
    /\ rec_dir' = [rec_dir EXCEPT ![c.self] = c.rec_dir]
    /\ storage_file_name' = [storage_file_name EXCEPT ![c.self] = c.file_name]
    /\ items' = [items EXCEPT ![c.self] = c.items]
    /\ observers' = [observers EXCEPT ![c.self] = c.observers]
    /\ disk' = c.disk
    /\ folders' = c.folders
    /\ lastSave' = RecordSave(c)
    /\ out' = Outcome(c)
    /\ UNCHANGED fn

\* ------------------------------------------------------------------ initial state
\* Files a previous session (of this or of an older program version) left.
PriorPath == storage_file_path("recA", StorageFileName)
PayloadLists == SeqsUpTo(AllTuples, MaxItems)
PriorDicts ==
    {[version |-> v, data |-> l] : v \in {ItemVersion, ItemVersion - 1}, l \in PayloadLists}
        \cup {[data |-> l] : l \in PayloadLists}
        \cup {[version |-> v] : v \in {ItemVersion, ItemVersion - 1}}

\* No call of get_valid_filename was made and no string typed.
FnIdle == [input |-> <<>>, once |-> <<>>, twice |-> <<>>, calls |-> 0]

\* Either one recording and one storage class, with or without a file of a
\* previous session, or an unused file system with all recordings or with all
\* storage classes.
Init ==
    /\ constructed = {}
    /\ rec_dir = [s \in Inst |-> NoDir]
    /\ storage_file_name = [s \in Inst |-> NoName]
    /\ items = [s \in Inst |-> <<>>]
    /\ observers = [s \in Inst |-> 0]
    /\ \/ /\ recordings \in {{"recA"}, RecDirs}
          /\ classes = {StorageFileName}
          /\ disk = [p \in Paths |-> None]
       \/ /\ recordings = {"recA"}
          /\ classes = FileNames
          /\ disk = [p \in Paths |-> None]
       \/ /\ recordings = {"recA"}
          /\ classes = {StorageFileName}
          /\ \E d \in PriorDicts :
                 disk = [p \in Paths |-> IF p = PriorPath THEN Some(d) ELSE None]
    /\ folders = {dirname(p) : p \in {q \in Paths : disk[q] # None}}
    /\ fired = [s \in Inst |-> 0]
    /\ hookSaves = [s \in Inst |-> 0]
    /\ lastSave = [p \in Paths |-> None]
    /\ fn = FnIdle
    /\ out = [op |-> "start", self |-> "none", before |-> <<>>, resave |-> FALSE,
              raised |-> "none",
              faults |-> <<>>, warnings |-> <<>>,
              calls |-> <<>>, registered |-> 0, loads |-> 0, saves |-> 0,
              reads |-> 0, mkdirs |-> 0, writes |-> 0]

\* ------------------------------------------------------------------ actions
\* The host starts a plugin, which constructs its storage, of the class with
\* the file name `name`, over a recording directory; the object takes the place
\* of the one of the previous session.
Construct(s, dir, name) ==
    /\ dir \in recordings
    /\ name \in classes
    /\ constructed' = constructed \cup {s}
    /\ Commit(SingleFileStorage_init(Fresh(Begin("construct", s), name), dir))
    /\ fired' = [fired EXCEPT ![s] = 0]
    /\ hookSaves' = [hookSaves EXCEPT ![s] = 0]
    /\ UNCHANGED <<recordings, classes>>

\* The owner adds an item.
Add(s, item) ==
    /\ s \in constructed
    /\ Len(items[s]) < MaxItems
    /\ Commit([Begin("add", s) EXCEPT !.items = add(@, item)])
    /\ UNCHANGED <<recordings, classes, constructed, fired, hookSaves>>

\* The owner deletes an item of the collection.
Delete(s, item) ==
    /\ s \in constructed
    /\ \E k \in 1..Len(items[s]) : items[s][k] = item
    /\ Commit([Begin("delete", s) EXCEPT !.items = delete(@, item)])
    /\ UNCHANGED <<recordings, classes, constructed, fired, hookSaves>>

\* The owner calls save_to_disk().
SaveToDisk(s, io) ==
    /\ s \in constructed
    /\ Commit(save_to_disk(Begin("save_to_disk", s), io))
    /\ UNCHANGED <<recordings, classes, constructed, fired, hookSaves>>

\* The owner calls _load_from_disk().
LoadFromDisk(s) ==
    /\ s \in constructed
    /\ LET c == _load_from_disk(Begin("_load_from_disk", s))
       IN /\ Len(c.items) <= MaxItems
          /\ Commit(c)
    /\ UNCHANGED <<recordings, classes, constructed, fired, hookSaves>>

\* The host fires the "cleanup" event of the plugin that owns s.
Cleanup(s, io) ==
    /\ s \in constructed
    /\ fired[s] < MaxCleanups
    /\ LET c == fire_cleanup(Begin("cleanup", s), observers[s], io)
       IN /\ Commit(c)
          /\ hookSaves' = [hookSaves EXCEPT ![s] = @ + c.saves]
    /\ fired' = [fired EXCEPT ![s] = @ + 1]
    /\ UNCHANGED <<recordings, classes, constructed>>

Next ==
    \/ \E s \in Inst, dir \in RecDirs, name \in FileNames : Construct(s, dir, name)
    \/ \E s \in Inst, item \in Items : Add(s, item)
    \/ \E s \in Inst, item \in Items : Delete(s, item)
    \/ \E s \in Inst, io \in IoOutcomes : SaveToDisk(s, io)
    \/ \E s \in Inst : LoadFromDisk(s)
    \/ \E s \in Inst, io \in IoOutcomes : Cleanup(s, io)

Spec == Init /\ [][Next]_vars

\* ------------------------------------------------------------------ file name calls
\* A caller derives a file name from a string typed by the user: it calls
\* get_valid_filename on the string and then once more on the result. No
\* storage is constructed meanwhile.
InitName ==
    /\ Init
    /\ recordings = {"recA"}
    /\ classes = {StorageFileName}
    /\ disk = [p \in Paths |-> None]

\* The user types one more character.
TypeChar(ch) ==
    /\ fn.calls = 0
    /\ Len(fn.input) < MaxName
    /\ fn' = [fn EXCEPT !.input = Append(@, ch)]

\* get_valid_filename(input)
CallOnce ==
    /\ fn.calls = 0
    /\ fn' = [fn EXCEPT !.once = get_valid_filename(fn.input), !.calls = 1]

\* get_valid_filename(get_valid_filename(input))
CallAgain ==
    /\ fn.calls = 1
    /\ fn' = [fn EXCEPT !.twice = get_valid_filename(fn.once), !.calls = 2]

NextName ==
    /\ \/ \E ch \in Alphabet : TypeChar(ch)
       \/ CallOnce
       \/ CallAgain
    /\ UNCHANGED <<recordings, classes, constructed, rec_dir, storage_file_name, items,
                   observers,
                   disk, folders, fired, hookSaves, lastSave, out>>

SpecName == InitName /\ [][NextName]_vars

\* ------------------------------------------------------------------ properties
\* The storage file path of instance s.
PathOf(s) == storage_file_path(rec_dir[s], storage_file_name[s])

\* The call that just finished is op, made on s.
Did(op, s) == out.op = op /\ out.self = s

\* The dict a file holds (only for an existing file).
FileDict(p) == disk[p][1]

\* The dict save_to_disk writes for a collection.
DictOf(coll) == [version |-> ItemVersion, data |-> as_tuples(coll)]

\* C1: save/load round trip. When a load on an empty storage has finished and
\* the file of its path was written by a successful save of collection X, the
\* storage holds exactly X, in the same order, and nothing was raised.
C1_RoundTrip ==
    \A s \in constructed :
        (Did("_load_from_disk", s) /\ out.before = <<>> /\ lastSave[PathOf(s)] # None)
            => (out.raised = "none" /\ items[s] = lastSave[PathOf(s)][1])

\* A fresh storage loaded two different items, in the order they were saved in.
C1_Witness ==
    \E s \in constructed :
        /\ Did("_load_from_disk", s) /\ out.before = <<>>
        /\ lastSave[PathOf(s)] # None
        /\ Len(items[s]) = 2 /\ items[s][1] # items[s][2]
        /\ items[s] = lastSave[PathOf(s)][1]

\* The file of path p exists and declares the version v (None: no version field).
Declares(p, v) == disk[p] # None /\ dict_get(FileDict(p), "version") = v

\* The file of path p exists and declares a version other than the current one.
Stale(p) ==
    /\ disk[p] # None
    /\ dict_get(FileDict(p), "version") \notin {None, Some(ItemVersion)}

\* The payload of the file of path p (<<>> without a data field).
Payload(p) == IF "data" \in DOMAIN FileDict(p) THEN FileDict(p).data ELSE <<>>

\* C2: stale version discard. A load from a file that declares another version
\* adds no item, reconstructs none, logs exactly one warning, which names the
\* file path, and raises nothing, whatever the data field holds.
C2_StaleVersionDiscard ==
    \A s \in constructed :
        (Did("_load_from_disk", s) /\ Stale(PathOf(s)))
            => /\ items[s] = out.before
               /\ out.calls = <<>>
               /\ out.warnings = <<PathOf(s)>>
               /\ out.raised = "none"

\* A load met a stale file whose payload holds tuples it could have added.
C2_Witness ==
    \E s \in constructed :
        /\ Did("_load_from_disk", s) /\ Stale(PathOf(s))
        /\ \E k \in 1..Len(Payload(PathOf(s))) : from_tuple_ok(Payload(PathOf(s))[k])
        /\ items[s] = <<>> /\ out.warnings = <<PathOf(s)>>

\* C3: missing file tolerance. A load without a storage file adds no item (a
\* fresh storage stays empty), logs no warning and raises nothing.
C3_MissingFileTolerance ==
    \A s \in constructed :
        (Did("_load_from_disk", s) /\ disk[PathOf(s)] = None)
            => /\ items[s] = out.before
               /\ out.calls = <<>>
               /\ out.warnings = <<>>
               /\ out.raised = "none"

\* A fresh storage was loaded where neither the file nor its folder exists.
C3_Witness ==
    \E s \in constructed :
        /\ Did("_load_from_disk", s) /\ disk[PathOf(s)] = None
        /\ dirname(PathOf(s)) \notin folders
        /\ out.before = <<>> /\ items[s] = <<>> /\ out.reads = 1

\* q is a prefix of r.
IsPrefix(q, r) == Len(q) <= Len(r) /\ q = SubSeq(r, 1, Len(q))

\* C4: version gating precedes reconstruction. from_tuple is invoked only during
\* a load from a file that declares the current version, and only on tuples of
\* that file, in stored order; a file with another version or without a version
\* field is treated as absent: no from_tuple, nothing added, nothing raised.
C4_VersionGating ==
    /\ out.calls # <<>> =>
           \E s \in constructed :
               /\ Did("_load_from_disk", s)
               /\ Declares(PathOf(s), Some(ItemVersion))
               /\ IsPrefix(out.calls, Payload(PathOf(s)))
    /\ \A s \in constructed :
           (Did("_load_from_disk", s) /\ disk[PathOf(s)] # None
                                     /\ ~Declares(PathOf(s), Some(ItemVersion)))
               => (out.calls = <<>> /\ items[s] = out.before /\ out.raised = "none")

\* A load met a file without a version field whose payload holds tuples.
C4_Witness ==
    \E s \in constructed :
        /\ Did("_load_from_disk", s) /\ Declares(PathOf(s), None)
        /\ Len(Payload(PathOf(s))) > 0
        /\ out.calls = <<>> /\ items[s] = out.before

\* C5: one persist per cleanup event. Over the lifetime of a storage the
\* save_to_disk() invocations made by the cleanup hook are as many as the
\* "cleanup" events the host fired, every firing makes exactly one, no other
\* call makes one through the hook, and the constructor registers exactly one
\* observer.
C5_OneSavePerCleanup ==
    /\ \A s \in Inst : hookSaves[s] = fired[s]
    /\ \A s \in constructed : observers[s] = 1
    /\ out.op = "construct" => out.registered = 1
    /\ out.op = "cleanup" => out.saves = 1
    /\ out.op \notin {"construct"} => out.registered = 0

\* The host fired "cleanup" twice on one plugin.
C5_Witness ==
    \E s \in constructed : out.op = "cleanup" /\ fired[s] >= 2 /\ hookSaves[s] >= 2

\* C6: on-disk content after save. A file that was saved successfully holds
\* {"version": item class version, "data": [as_tuple of each item, in order]}
\* of the collection of the most recent successful save, and nothing else.
C6_DiskContentAfterSave ==
    \A p \in Paths : lastSave[p] # None => disk[p] = Some(DictOf(lastSave[p][1]))

\* After a successful save the collection changed and a later save failed: the
\* file still holds the collection of the successful one.
C6_Witness ==
    \E s \in constructed :
        /\ Did("save_to_disk", s) /\ out.faults # <<>>
        /\ lastSave[PathOf(s)] # None
        /\ Len(lastSave[PathOf(s)][1]) > Len(items[s])
        /\ disk[PathOf(s)] = Some(DictOf(lastSave[PathOf(s)][1]))

\* C7: save_to_disk() is idempotent on disk. A save_to_disk() call that starts
\* when the file already holds the last successful save of the unchanged
\* collection leaves every file and every folder as they were.
C7_SaveIdempotent ==
    [][\A s \in constructed :
           (out'.self = s /\ out'.op \in {"save_to_disk", "cleanup"} /\ out'.saves > 0
                          /\ SavedAlready(s))
               => (disk' = disk /\ folders' = folders)]_vars

\* save_to_disk() succeeded on a non-empty collection that was saved already.
C7_Witness ==
    \E s \in constructed :
        /\ Did("save_to_disk", s) /\ out.resave /\ out.raised = "none"
        /\ out.writes = 1 /\ Len(items[s]) > 0
        /\ disk[PathOf(s)] = Some(DictOf(items[s]))

\* The positions of the tuples of a payload that from_tuple fails on.
BadAt(list) == {k \in 1..Len(list) : ~from_tuple_ok(list[k])}
FirstBad(list) == CHOOSE k \in BadAt(list) : \A j \in BadAt(list) : k <= j

\* C8: malformed data is not masked. A load from a file of the current version
\* whose payload holds a tuple from_tuple fails on raises that failure; the
\* failing tuple is the last one from_tuple was invoked on.
C8_MalformedNotMasked ==
    \A s \in constructed :
        (Did("_load_from_disk", s) /\ Declares(PathOf(s), Some(ItemVersion))
                                  /\ BadAt(Payload(PathOf(s))) # {})
            => /\ out.raised = "DeserializationError"
               /\ out.calls = SubSeq(Payload(PathOf(s)), 1, FirstBad(Payload(PathOf(s))))

\* A load failed on a tuple that a well-formed tuple follows in the file.
C8_Witness ==
    \E s \in constructed :
        /\ Did("_load_from_disk", s) /\ Declares(PathOf(s), Some(ItemVersion))
        /\ BadAt(Payload(PathOf(s))) # {}
        /\ FirstBad(Payload(PathOf(s))) < Len(Payload(PathOf(s)))
        /\ from_tuple_ok(Payload(PathOf(s))[Len(Payload(PathOf(s)))])
        /\ out.raised = "DeserializationError"

\* C9: save I/O failures are surfaced. When os.makedirs or fm.save_object fails
\* during save_to_disk(), called by the owner or by the cleanup hook, the call
\* raises, the failed step was attempted once and nothing was attempted after
\* it, and the in-memory collection is the one the call began with.
C9_SaveFailureSurfaced ==
    \A s \in constructed :
        (out.self = s /\ out.op \in {"save_to_disk", "cleanup"} /\ out.faults # <<>>)
            => /\ out.raised = "OSError"
               /\ Len(out.faults) = 1
               /\ out.saves = 1 /\ out.mkdirs = 1
               /\ out.writes = (IF out.faults = <<"makedirs">> THEN 0 ELSE 1)
               /\ items[s] = out.before

\* The cleanup hook's save failed for a non-empty collection.
C9_Witness ==
    \E s \in constructed :
        /\ Did("cleanup", s) /\ out.faults # <<>> /\ out.raised = "OSError"
        /\ Len(items[s]) > 0

\* C10: construction never loads. A constructor call invokes no
\* _load_from_disk, reads and writes no file, creates no folder and leaves the
\* collection empty; only a _load_from_disk() call of the owner reads the file
\* and reconstructs items.
C10_ConstructionNeverLoads ==
    [][/\ out'.op = "construct" =>
              /\ out'.loads = 0 /\ out'.reads = 0 /\ out'.calls = <<>>
              /\ out'.saves = 0 /\ out'.mkdirs = 0 /\ out'.writes = 0
              /\ items'[out'.self] = <<>>
              /\ disk' = disk /\ folders' = folders
       /\ (out'.reads > 0 \/ out'.loads > 0 \/ out'.calls # <<>>)
              => out'.op = "_load_from_disk"]_vars

\* A storage was constructed over a loadable file of the current version.
C10_Witness ==
    \E s \in constructed :
        /\ Did("construct", s) /\ Declares(PathOf(s), Some(ItemVersion))
        /\ Len(Payload(PathOf(s))) > 0 /\ BadAt(Payload(PathOf(s))) = {}
        /\ items[s] = <<>>

\* The items from_tuple reconstructs from a list of well-formed tuples.
FromTuples(list) == [k \in 1..Len(list) |-> from_tuple(list[k])]

\* C14: load appends and never clears. A load from a file of the current
\* version whose tuples all reconstruct leaves the collection equal to what it
\* held before, in the same order, followed by the items of the file in stored
\* order; nothing is raised.
C14_LoadAppends ==
    \A s \in constructed :
        (Did("_load_from_disk", s) /\ Declares(PathOf(s), Some(ItemVersion))
                                  /\ BadAt(Payload(PathOf(s))) = {})
            => /\ out.raised = "none"
               /\ items[s] = out.before \o FromTuples(Payload(PathOf(s)))

\* The same file was loaded into a storage that held its items already: every
\* stored item is there twice.
C14_Witness ==
    \E s \in constructed :
        /\ Did("_load_from_disk", s) /\ Declares(PathOf(s), Some(ItemVersion))
        /\ Len(Payload(PathOf(s))) > 0 /\ BadAt(Payload(PathOf(s))) = {}
        /\ out.before = FromTuples(Payload(PathOf(s)))
        /\ items[s] = out.before \o out.before

\* C15: load is not atomic on malformed data. When from_tuple first fails on
\* the k-th tuple of a file of the current version, the load raises and the
\* collection is what it held before followed by the items of tuples 1..k-1.
C15_LoadNotAtomic ==
    \A s \in constructed :
        (Did("_load_from_disk", s) /\ Declares(PathOf(s), Some(ItemVersion))
                                  /\ BadAt(Payload(PathOf(s))) # {})
            => /\ out.raised = "DeserializationError"
               /\ items[s] = out.before \o
                      FromTuples(SubSeq(Payload(PathOf(s)), 1,
                                        FirstBad(Payload(PathOf(s))) - 1))

\* A load into a non-empty storage failed on the second tuple and kept the
\* item of the first.
C15_Witness ==
    \E s \in constructed :
        /\ Did("_load_from_disk", s) /\ Declares(PathOf(s), Some(ItemVersion))
        /\ BadAt(Payload(PathOf(s))) # {}
        /\ FirstBad(Payload(PathOf(s))) = 2
        /\ Len(out.before) > 0
        /\ Len(items[s]) = Len(out.before) + 1
        /\ out.raised = "DeserializationError"

\* C16: save and load touch only their own side. No save_to_disk() call, made
\* by the owner or by the cleanup hook, successful or failing, changes the
\* collection; no _load_from_disk() call, whatever its outcome, changes a
\* file or a folder.
C16_OwnSideOnly ==
    [][/\ out'.op \in {"save_to_disk", "cleanup"} => items' = items
       /\ out'.op = "_load_from_disk" => (disk' = disk /\ folders' = folders)]_vars

\* A load that raised on a malformed tuple left the file of a previous session
\* in place.
C16_Witness ==
    \E s \in constructed :
        /\ Did("_load_from_disk", s) /\ out.raised = "DeserializationError"
        /\ disk[PathOf(s)] # None /\ lastSave[PathOf(s)] = None
        /\ Len(items[s]) > Len(out.before)

\* C12: one file per storage instance. Every call on a storage leaves all
\* files but <rec_dir>/offline_data/<storage file name> and all folders but
\* <rec_dir>/offline_data as they were; a successful save puts the collection
\* in that file, and a load warns about and reconstructs tuples of that file
\* only. What a storage over another path loads is therefore unchanged.
C12_OneFilePerStorage ==
    [][\A s \in constructed' :
           out'.self = s =>
               LET folder == <<rec_dir'[s], "offline_data">>
                   path == <<rec_dir'[s], "offline_data", storage_file_name'[s]>>
               IN /\ \A q \in DOMAIN disk : q # path => disk'[q] = disk[q]
                  /\ folders' \subseteq folders \cup {folder}
                  /\ (out'.op \in {"save_to_disk", "cleanup"} /\ out'.raised = "none")
                         => (path \in DOMAIN disk /\ disk'[path] = Some(DictOf(items[s])))
                  /\ out'.op = "_load_from_disk"
                         => /\ out'.reads = 1
                            /\ out'.warnings \in {<<>>, <<path>>}
                            /\ out'.calls # <<>> =>
                                   /\ path \in DOMAIN disk /\ disk[path] # None
                                   /\ "data" \in DOMAIN disk[path][1]
                                   /\ IsPrefix(out'.calls, disk[path][1].data)]_vars

\* A storage saved next to the file of a storage of another class, in the same
\* recording, which still holds another collection.
C12_Witness ==
    \E s \in constructed, q \in Paths :
        /\ Did("save_to_disk", s) /\ out.raised = "none"
        /\ q[1] = rec_dir[s] /\ q[3] # storage_file_name[s]
        /\ lastSave[q] # None /\ Len(lastSave[q][1]) > 0
        /\ lastSave[q][1] # items[s]
        /\ disk[q] = Some(DictOf(lastSave[q][1]))
        /\ disk[PathOf(s)] = Some(DictOf(items[s]))

\* The first and the last position of str that hold no white space.
Inner(str) == {k \in 1..Len(str) : str[k] \notin Whitespace}
First(str) == CHOOSE k \in Inner(str) : \A j \in Inner(str) : k <= j
Last(str) == CHOOSE k \in Inner(str) : \A j \in Inner(str) : j <= k
Core(str) == IF Inner(str) = {} THEN <<>> ELSE SubSeq(str, First(str), Last(str))
IsAllowed(ch) == ch \in AllowedChars

\* The result as the claim states it: every internal white space character
\* becomes an underscore.
Claimed(str) ==
    SelectSeq([k \in 1..Len(Core(str)) |->
                  IF Core(str)[k] \in Whitespace THEN "_" ELSE Core(str)[k]], IsAllowed)

\* The result as amended: only the internal space characters become
\* underscores, other internal white space is removed.
Amended(str) ==
    SelectSeq([k \in 1..Len(Core(str)) |->
                  IF Core(str)[k] = " " THEN "_" ELSE Core(str)[k]], IsAllowed)

\* C11 as stated: get_valid_filename returns the input stripped of leading and
\* trailing white space, with every internal white space character converted
\* to an underscore and every character outside [-_a-zA-Z0-9.] removed.
C11_AsStated == fn.calls >= 1 => fn.once = Claimed(fn.input)

\* C11 as amended: get_valid_filename returns, for every string, the input
\* stripped of leading and trailing white space, with every internal space
\* character converted to an underscore and every other character outside
\* [-_a-zA-Z0-9.] (other internal white space included) removed; the result
\* holds characters of that set only.
C11_ValidFilename ==
    fn.calls >= 1 =>
        /\ fn.once = Amended(fn.input)
        /\ \A k \in 1..Len(fn.once) : fn.once[k] \in AllowedChars

\* A string with a space and a tab between two kept characters was converted:
\* the space became an underscore, the tab is gone.
C11_Witness ==
    /\ fn.calls >= 1
    /\ \E k \in 1..Len(Core(fn.input)) : Core(fn.input)[k] = " "
    /\ \E k \in 1..Len(Core(fn.input)) : Core(fn.input)[k] = "\t"
    /\ \E k \in 1..Len(fn.once) : fn.once[k] = "_"
    /\ Len(fn.once) = Len(Core(fn.input)) - 1

\* C17: get_valid_filename is idempotent. Applied to its own result it
\* returns that result.
C17_FilenameIdempotent == fn.calls = 2 => fn.twice = fn.once

\* The second call was given a result that differs from the typed string.
C17_Witness ==
    /\ fn.calls = 2
    /\ fn.once # fn.input /\ Len(fn.once) > 0
    /\ fn.twice = fn.once

====
